---- MODULE Spec2Model ----
(***************************************************************************)
(* Model of the two converters of Export-To-Ghostfolio:                    *)
(*   src/src/converters/truewealthConverter.ts  (TrueWealth, "Provider A") *)
(*   src/src/converters/bitpandaConverter.ts    (Bitpanda,   "Provider B") *)
(*                                                                         *)
(* One run of processFileContents is modelled: the csv-parse callback with *)
(* its cast, the row loop with its await on the security service, and the  *)
(* delivery through successCallback / errorCallback.                       *)
(*                                                                         *)
(* Strings are sequences of one-character strings, so that toLowerCase,    *)
(* indexOf, startsWith, the regular-expression strip and parseFloat are    *)
(* computed and not assumed.  Numbers are records                          *)
(*      [k |-> "num" | "nan" | "undef", m, d, e]                           *)
(* standing for  m / 10^d * 31.1034768^e : the mantissa and the number of  *)
(* fractional digits parseFloat read, and the power of the grams-per-troy- *)
(* ounce factor the metal conversion applied.                              *)
(***************************************************************************)
EXTENDS Integers, Sequences, FiniteSets, TLC

VARIABLES
    provider,      \* which converter runs: "truewealth" or "bitpanda"
    input,         \* the file: tokenizer error, header, tokenized data rows
    records,       \* the records csv-parse hands to the callback (after cast)
    pc,            \* where the run is
    idx,           \* the row loop's index (1-based here, 0-based in the code)
    activities,    \* result.activities
    origin,        \* for each activity, the index of the record that pushed it
    calls,         \* the getSecurity calls in order: the record's index, the answer
    successCalls,  \* number of invocations of successCallback
    errorCalls,    \* number of invocations of errorCallback
    errorArg,      \* what errorCallback was last given
    rejected       \* the async callback ended in an unhandled rejection

vars == <<provider, input, records, pc, idx, activities, origin,
          calls, successCalls, errorCalls, errorArg, rejected>>

\* Largest number of data rows of an input file.
MaxRows == 3

-----------------------------------------------------------------------------
(* Strings *)

UpperAlpha == <<"A","B","C","D","E","F","G","H","I","J","K","L","M",
                "N","O","P","Q","R","S","T","U","V","W","X","Y","Z">>

LowerAlpha == <<"a","b","c","d","e","f","g","h","i","j","k","l","m",
                "n","o","p","q","r","s","t","u","v","w","x","y","z">>

Digits == <<"0","1","2","3","4","5","6","7","8","9">>

\* JavaScript's undefined / null, where a string or an object is expected.
Undefined == <<"<undefined>">>

\* The lower-case letter of each upper-case letter.
LowerOf ==
    [c \in {UpperAlpha[i] : i \in DOMAIN UpperAlpha} |->
        LowerAlpha[CHOOSE i \in DOMAIN UpperAlpha : UpperAlpha[i] = c]]

ToLowerChar(c) == IF c \in DOMAIN LowerOf THEN LowerOf[c] ELSE c

\* String.prototype.toLowerCase / toLocaleLowerCase
ToLowerCase(s) == [i \in DOMAIN s |-> ToLowerChar(s[i])]

\* String.prototype.indexOf: the first 0-based position of t in s, or -1.
IndexOf(s, t) ==
    LET hits == {i \in 0..(Len(s) - Len(t)) : SubSeq(s, i + 1, i + Len(t)) = t}
    IN  IF hits = {} THEN -1 ELSE CHOOSE i \in hits : \A j \in hits : i <= j

\* String.prototype.startsWith
StartsWith(s, t) == Len(s) >= Len(t) /\ SubSeq(s, 1, Len(t)) = t

DigitChars == {Digits[i] : i \in DOMAIN Digits}

IsDigit(c) == c \in DigitChars

DigitValue(c) == (CHOOSE i \in DOMAIN Digits : Digits[i] = c) - 1

-----------------------------------------------------------------------------
(* Numbers *)

Num(m, d) == [k |-> "num", m |-> m, d |-> d, e |-> 0]

NaN == [k |-> "nan", m |-> 0, d |-> 0, e |-> 0]

NumUndefined == [k |-> "undef", m |-> 0, d |-> 0, e |-> 0]

Zero == Num(0, 0)

One == Num(1, 0)

\* Drops the trailing zeros of the fraction: 1.50 and 1.5 are one number.
RECURSIVE Normalize(_)
Normalize(n) ==
    IF n.k = "num" /\ n.d > 0 /\ n.m % 10 = 0
    THEN Normalize([n EXCEPT !.m = n.m \div 10, !.d = n.d - 1])
    ELSE n

\* The length of the longest prefix of s that consists of digits.
RECURSIVE DigitRun(_)
DigitRun(s) ==
    IF s # <<>> /\ IsDigit(Head(s)) THEN 1 + DigitRun(Tail(s)) ELSE 0

RECURSIVE DigitsToInt(_)
DigitsToInt(s) ==
    IF s = <<>> THEN 0
    ELSE 10 * DigitsToInt(SubSeq(s, 1, Len(s) - 1)) + DigitValue(s[Len(s)])

RECURSIVE TrimStart(_)
TrimStart(s) == IF s # <<>> /\ Head(s) = " " THEN TrimStart(Tail(s)) ELSE s

\* The global parseFloat on decimal text: leading white space, a sign, digits,
\* a dot and digits; what follows is ignored; no digit at all gives NaN.
ParseFloat(s) ==
    LET t      == TrimStart(s)
        signed == t # <<>> /\ Head(t) \in {"-", "+"}
        sign   == IF t # <<>> /\ Head(t) = "-" THEN -1 ELSE 1
        u      == IF signed THEN Tail(t) ELSE t
        ni     == DigitRun(u)
        afterI == SubSeq(u, ni + 1, Len(u))
        dotted == afterI # <<>> /\ Head(afterI) = "."
        nf     == IF dotted THEN DigitRun(Tail(afterI)) ELSE 0
        digs   == SubSeq(u, 1, ni) \o (IF dotted THEN SubSeq(afterI, 2, nf + 1) ELSE <<>>)
    IN  IF ni + nf = 0 THEN NaN
        ELSE Normalize(Num(sign * DigitsToInt(digs), nf))

\* Math.abs: NaN for NaN and for undefined.
MathAbs(n) ==
    IF n.k = "num" THEN [n EXCEPT !.m = IF n.m < 0 THEN -n.m ELSE n.m] ELSE NaN

\* A real number that is >= 0 (false for NaN and undefined).
IsNonNegative(n) == n.k = "num" /\ n.m >= 0

-----------------------------------------------------------------------------
(* Text that occurs in the files and in the code *)

sBuy == <<"b","u","y">>

sSell == <<"s","e","l","l">>

sDividend == <<"d","i","v","i","d","e","n","d">>

sFx == <<"f","x">>

sInterest == <<"i","n","t","e","r","e","s","t">>

sReward == <<"r","e","w","a","r","d">>

sTransfer == <<"t","r","a","n","s","f","e","r">>

sIncoming == <<"i","n","c","o","m","i","n","g">>

sFiat == <<"f","i","a","t">>

sCryptocurrency == <<"c","r","y","p","t","o","c","u","r","r","e","n","c","y">>

sStockDerivative ==
    <<"s","t","o","c","k"," ","(","d","e","r","i","v","a","t","i","v","e",")">>

sMetal == <<"m","e","t","a","l">>

sDash == <<"-">>

sEmpty == <<>>

\* process.env.GHOSTFOLIO_ACCOUNT_ID
AccountId == "account-1"

\* process.env.GHOSTFOLIO_BITPANDA_STAKING_REWARD_ASSET_ID
StakingRewardAssetId == <<"s","t","a","k","i","n","g","-","i","d">>

\* The canonical activity kinds: the keys of the enumeration GhostfolioOrderType.
OrderTypes == {sBuy, sSell, sDividend, sInterest, sFx}

\* GhostfolioOrderType[key]: the kind of that name, undefined for any other key.
GhostfolioOrderType(key) == IF key \in OrderTypes THEN key ELSE Undefined

-----------------------------------------------------------------------------
(* The security service: what one getSecurity call can come back with *)

FoundFull ==
    [status |-> "found", symbol |-> <<"X","Y","Z">>, currency |-> <<"U","S","D">>]

\* A security without symbol and without currency.
FoundBare == [status |-> "found", symbol |-> Undefined, currency |-> Undefined]

NotFound == [status |-> "notfound", symbol |-> Undefined, currency |-> Undefined]

LookupError == [status |-> "error", symbol |-> Undefined, currency |-> Undefined]

Responses == {FoundFull, FoundBare, NotFound, LookupError}

\* A call that has not come back yet.
Pending == [status |-> "pending", symbol |-> Undefined, currency |-> Undefined]

-----------------------------------------------------------------------------
(* TrueWealth *)

\* The cast of truewealthConverter.ts for the column "type".
TWCastType(columnValue) ==
    LET action == ToLowerCase(columnValue)
    IN  IF IndexOf(action, sBuy) > -1 THEN sBuy
        ELSE IF IndexOf(action, sSell) > -1 THEN sSell
        ELSE IF IndexOf(action, sDividend) > -1 THEN sDividend
        ELSE IF IndexOf(action, sFx) > -1 THEN sFx
        ELSE columnValue

\* The cast applied to one tokenized row.  A column the header line does not
\* name gives no field: record.fees is then undefined.
TWCast(row, feesColumn) ==
    [date     |-> row.date,
     type     |-> TWCastType(row.type),
     currency |-> row.currency,
     price    |-> ParseFloat(row.price),
     shares   |-> ParseFloat(row.shares),
     fees     |-> IF feesColumn THEN ParseFloat(row.fees) ELSE NumUndefined]

TWIgnoredRecordTypes == {sFx}

TWIsIgnoredRecord(record) ==
    \E t \in TWIgnoredRecordTypes : IndexOf(ToLowerCase(record.type), t) > -1

\* util/types isNumberObject: true of a boxed Number object only; parseFloat
\* gives primitives, and a missing column gives undefined.
IsNumberObject(n) == n.k = "numobj"

TWFees(record) == IF IsNumberObject(record.fees) = FALSE THEN Zero ELSE record.fees

TWNumberOfShares(record) ==
    IF record.type = sDividend THEN One ELSE MathAbs(record.shares)

TWAssetPrice(record) == MathAbs(record.price)

\* dayjs.tz(date, "YYYY-MM-DD", "Europe/Zurich").hour(15).format(...)
TWFormatDate(date) == date \o <<"T15:00:00", "Europe/Zurich">>

TWActivity(record, sec) ==
    [accountId  |-> AccountId,
     comment    |-> sEmpty,
     fee        |-> TWFees(record),
     quantity   |-> TWNumberOfShares(record),
     type       |-> GhostfolioOrderType(record.type),
     unitPrice  |-> TWAssetPrice(record),
     currency   |-> IF sec.currency # Undefined THEN sec.currency ELSE record.currency,
     dataSource |-> "YAHOO",
     date       |-> TWFormatDate(record.date),
     symbol     |-> sec.symbol]

-----------------------------------------------------------------------------
(* Bitpanda *)

\* processHeaders: the fixed column list of the Bitpanda export.
BPHeaders ==
    <<"transactionId", "timestamp", "transactionType", "inOut", "amountFiat",
      "fiat", "amountAsset", "asset", "assetMarketPrice",
      "assetMarketPriceCurrency", "assetClass", "productId", "fee", "feeAsset",
      "feePercent", "spread", "spreadCurrency", "taxFiat">>

BPFloatFields ==
    {"amountFiat", "amountAsset", "assetMarketPrice", "fee", "feePercent",
     "spread", "taxFiat"}

\* The columns of a record that the converter reads.
BPFields ==
    {"timestamp", "transactionType", "inOut", "amountFiat", "fiat",
     "amountAsset", "asset", "assetMarketPrice", "assetMarketPriceCurrency",
     "assetClass", "fee"}

BPColumnIndex(f) == CHOOSE i \in DOMAIN BPHeaders : BPHeaders[i] = f

\* The preprocessing of a data line: a line with fewer columns than the header
\* is extended with "-" columns.  A line is its number of columns and its cells.
BPPadLine(line) ==
    LET expectedColumns == Len(BPHeaders)
    IN  [f \in BPFields |->
            IF line.ncols < expectedColumns /\ BPColumnIndex(f) > line.ncols
            THEN sDash
            ELSE line.cells[f]]

\* columnValue.replace(/[^\d.-]/g, "")
BPStripNonNumeric(s) ==
    LET Keep(c) == IsDigit(c) \/ c = "." \/ c = "-"
    IN  SelectSeq(s, Keep)

\* The cast of bitpandaConverter.ts.
BPCastCell(column, columnValue) ==
    IF column \in BPFloatFields
    THEN IF columnValue = sEmpty \/ columnValue = sDash
         THEN Zero
         ELSE MathAbs(ParseFloat(BPStripNonNumeric(columnValue)))
    ELSE columnValue

BPCast(line) ==
    LET cells == BPPadLine(line)
    IN  [f \in BPFields |-> BPCastCell(f, cells[f])]

BPIsIgnoredRecord(record) ==
    record.assetClass = sEmpty \/ ToLowerCase(record.assetClass) = sFiat

\* "Determine type"
BPType(record) ==
    LET tt == ToLowerCase(record.transactionType)
    IN  IF tt = sReward THEN sInterest
        ELSE IF StartsWith(tt, sTransfer)
             THEN IF ToLowerCase(record.inOut) = sIncoming THEN sBuy ELSE sSell
        ELSE IF tt = sBuy THEN sBuy
        ELSE IF tt = sSell THEN sSell
        ELSE Undefined

BPAssetClass(record) ==
    IF record.assetClass # sEmpty THEN ToLowerCase(record.assetClass) ELSE sEmpty

mapBitpandaSymbolToYahoo(asset) ==
    IF asset = <<"P","O","L">> THEN <<"M","A","T","I","C">> ELSE asset

\* grams / 31.1034768
gramsToTroyOunces(grams) ==
    IF grams.k = "num" THEN [grams EXCEPT !.e = grams.e - 1] ELSE NaN

\* unitPrice * 31.1034768
BPPricePerTroyOunce(price) ==
    IF price.k = "num" THEN [price EXCEPT !.e = price.e + 1] ELSE NaN

BPQuantity(record) ==
    IF BPAssetClass(record) = sMetal
    THEN gramsToTroyOunces(record.amountAsset)
    ELSE record.amountAsset

BPUnitPrice(record) ==
    IF BPAssetClass(record) = sMetal
    THEN BPPricePerTroyOunce(record.assetMarketPrice)
    ELSE record.assetMarketPrice

\* BPMetalSymbol without the fallback to the asset name.
BPMetalSymbolNoFallback(record, sec) == sec.symbol

\* The symbol of a metal once the lookup has come back: the security's symbol,
\* the asset name when nothing was found or the lookup raised an error.
BPMetalSymbol(record, sec) ==
    IF sec.status = "found" /\ sec.symbol # Undefined /\ sec.symbol # sEmpty
    THEN sec.symbol
    ELSE record.asset

\* The symbol of every other asset class.
BPPlainSymbol(record) ==
    IF BPAssetClass(record) = sCryptocurrency
    THEN mapBitpandaSymbolToYahoo(record.asset) \o <<"U","S","D">>
    ELSE record.asset

\* dayjs(record.timestamp).format("YYYY-MM-DDTHH:mm:ssZ")
BPFormatDate(timestamp) == <<"dayjs">> \o timestamp

BPCurrency(record) ==
    IF record.assetMarketPriceCurrency # sEmpty
    THEN record.assetMarketPriceCurrency
    ELSE record.fiat

\* "Reward in fiat currency"
BPRewardActivity(record, type) ==
    [accountId  |-> AccountId,
     comment    |-> <<"Staking reward ">> \o record.asset,
     fee        |-> record.fee,
     quantity   |-> One,
     type       |-> GhostfolioOrderType(type),
     unitPrice  |-> record.amountFiat,
     currency   |-> record.fiat,
     dataSource |-> "MANUAL",
     date       |-> BPFormatDate(record.timestamp),
     symbol     |-> StakingRewardAssetId]

\* The buy / sell activity, and the fictitious buy of a reward (fee 0).
BPTradeActivity(record, type, symbol, fee) ==
    [accountId  |-> AccountId,
     comment    |-> sEmpty,
     fee        |-> fee,
     quantity   |-> BPQuantity(record),
     type       |-> GhostfolioOrderType(type),
     unitPrice  |-> BPUnitPrice(record),
     currency   |-> BPCurrency(record),
     dataSource |-> "YAHOO",
     date       |-> BPFormatDate(record.timestamp),
     symbol     |-> symbol]

\* BPActivities without the branch for staking rewards.
BPActivitiesSingle(record, type, symbol) ==
    <<BPTradeActivity(record, type, symbol, record.fee)>>

\* "Add activities to result": what one record pushes, in the order pushed.
BPActivities(record, type, symbol) ==
    IF type = sInterest
    THEN <<BPRewardActivity(record, type),
           BPTradeActivity(record, sBuy, symbol, Zero)>>
    ELSE <<BPTradeActivity(record, type, symbol, record.fee)>>

-----------------------------------------------------------------------------
(* Input files *)

SeqsUpTo(S, n) == UNION {[1..k -> S] : k \in 0..n}

TWRow(type, shares, price, fees) ==
    [date     |-> <<"2024-01-15">>,
     type     |-> type,
     currency |-> <<"C","H","F">>,
     price    |-> price,
     shares   |-> shares,
     fees     |-> fees]

TWRows ==
    { TWRow(<<"B","u","y">>, <<"5">>, <<"1","0">>, <<"1",".","5">>),
      TWRow(<<"S","e","l","l">>, <<"-","5">>, <<"1","0">>, <<"0">>),
      TWRow(<<"D","i","v","i","d","e","n","d">>, <<"0">>, <<"2",".","5","0">>, <<>>),
      TWRow(<<"F","X">>, <<>>, <<>>, <<>>),
      TWRow(<<"F","X"," ","B","u","y">>, <<"5">>, <<"1","0">>, <<"0">>),
      TWRow(<<"D","e","p","o","s","i","t">>, <<"5">>, <<"1","0">>, <<"0">>),
      TWRow(<<"B","u","y">>, <<>>, <<"$","1","0">>, <<"n","/","a">>) }

\* A TrueWealth file: a tokenizer error, or a header line (with or without the
\* column "fees") and up to MaxRows data rows.
TWFiles ==
    {[err |-> TRUE, feesColumn |-> TRUE, rows |-> <<>>]}
    \cup {[err |-> FALSE, feesColumn |-> h, rows |-> r] :
             h \in BOOLEAN, r \in SeqsUpTo(TWRows, MaxRows)}

BPLine(ncols, transactionType, inOut, assetClass, asset, amountAsset, price, priceCurrency, fee) ==
    [ncols |-> ncols,
     cells |-> [timestamp                |-> <<"2024-01-15T10:00:00+01:00">>,
                transactionType          |-> transactionType,
                inOut                    |-> inOut,
                amountFiat               |-> <<"5">>,
                fiat                     |-> <<"E","U","R">>,
                amountAsset              |-> amountAsset,
                asset                    |-> asset,
                assetMarketPrice         |-> price,
                assetMarketPriceCurrency |-> priceCurrency,
                assetClass               |-> assetClass,
                fee                      |-> fee]]

cReward == <<"R","e","w","a","r","d">>

cIncoming == <<"i","n","c","o","m","i","n","g">>

cOutgoing == <<"o","u","t","g","o","i","n","g">>

cCrypto == <<"C","r","y","p","t","o","c","u","r","r","e","n","c","y">>

cMetal == <<"M","e","t","a","l">>

cGold == <<"G","o","l","d">>

cBTC == <<"B","T","C">>

cUSD == <<"U","S","D">>

BPLines ==
    LET full == Len(BPHeaders)
    IN  { BPLine(full, cReward, cIncoming, cCrypto, cBTC,
                 <<"0",".","5">>, <<"5","0">>, cUSD, sDash),
          BPLine(full, <<"R","E","W","A","R","D">>, cIncoming, cMetal, cGold,
                 <<"3","1">>, <<"2">>, sEmpty, <<"1">>),
          BPLine(full, cReward, cIncoming, <<"F","i","a","t">>, <<"E","U","R">>,
                 <<"5">>, <<"1">>, sEmpty, sDash),
          BPLine(full, <<"B","u","y">>, cOutgoing, cCrypto, <<"P","O","L">>,
                 <<"-","5">>, <<"$","1","0">>, cUSD, <<"1",".","5">>),
          BPLine(full, <<"S","e","l","l">>, cIncoming,
                 <<"S","t","o","c","k"," ","(","d","e","r","i","v","a","t","i","v","e",")">>,
                 <<"T","S","L","A">>, <<"2">>, <<"1","0">>, cUSD, <<"0">>),
          BPLine(full, <<"t","r","a","n","s","f","e","r","(","s","t","a","k","e",")">>,
                 cIncoming, cCrypto, cBTC, <<"1">>, <<"5","0">>, cUSD, sDash),
          BPLine(full, <<"T","r","a","n","s","f","e","r">>, cOutgoing, cMetal, cGold,
                 <<"3","1">>, <<"2">>, cUSD, sDash),
          BPLine(full, <<"D","e","p","o","s","i","t">>, cIncoming, cCrypto, cBTC,
                 <<"1">>, <<"5","0">>, cUSD, sDash),
          BPLine(full, <<"W","i","t","h","d","r","a","w","a","l">>, cOutgoing, cMetal,
                 cGold, <<"1">>, <<"2">>, cUSD, sDash),
          BPLine(full, <<"B","u","y">>, cIncoming, sEmpty, cGold,
                 <<"1">>, <<"2">>, cUSD, sDash),
          BPLine(full, <<"B","u","y">>, cIncoming, cMetal, cGold,
                 <<"n","/","a">>, <<"2">>, cUSD, sDash),
          \* a short line: its last column is assetMarketPriceCurrency
          BPLine(BPColumnIndex("assetMarketPriceCurrency"), <<"B","u","y">>,
                 cIncoming, sEmpty, cBTC, <<"1">>, <<"5","0">>, cUSD, sEmpty) }

BPFiles ==
    {[err |-> TRUE, feesColumn |-> TRUE, rows |-> <<>>]}
    \cup {[err |-> FALSE, feesColumn |-> TRUE, rows |-> r] :
             r \in SeqsUpTo(BPLines, MaxRows)}

NoError == [kind |-> "none", row |-> 0]

-----------------------------------------------------------------------------
(* The run *)

Init ==
    /\ provider \in {"truewealth", "bitpanda"}
    /\ input \in (IF provider = "truewealth" THEN TWFiles ELSE BPFiles)
    /\ records = <<>>
    /\ pc = "Start"
    /\ idx = 0
    /\ activities = <<>>
    /\ origin = <<>>
    /\ calls = <<>>
    /\ successCalls = 0
    /\ errorCalls = 0
    /\ errorArg = NoError
    /\ rejected = FALSE

\* Push with unshift in the place of push.
PushFront(acts) ==
    /\ activities' = acts \o activities
    /\ origin' = [i \in DOMAIN acts |-> idx] \o origin
    /\ idx' = idx + 1
    /\ pc' = "RowProcessing"

\* records[idx] pushes the activities acts and the loop goes on.
Push(acts) ==
    /\ activities' = activities \o acts
    /\ origin' = origin \o [i \in DOMAIN acts |-> idx]
    /\ idx' = idx + 1
    /\ pc' = "RowProcessing"

\* The loop goes on to the next record without pushing anything.
Skip ==
    /\ idx' = idx + 1
    /\ pc' = "RowProcessing"
    /\ UNCHANGED <<activities, origin>>

\* The csv-parse callback starts: "Check if parsing failed..".
ParsedOrFailed(cast) ==
    IF input.err \/ Len(cast) = 0
    THEN /\ pc' = "ParseFailed"
         /\ errorCalls' = errorCalls + 1
         /\ errorArg' = [kind |-> "parse", row |-> 0]
         /\ UNCHANGED <<records, idx>>
    ELSE /\ pc' = "RowProcessing"
         /\ records' = cast
         /\ idx' = 1
         /\ UNCHANGED <<errorCalls, errorArg>>

TWParse ==
    /\ provider = "truewealth"
    /\ pc = "Start"
    /\ ParsedOrFailed([i \in DOMAIN input.rows |-> TWCast(input.rows[i], input.feesColumn)])
    /\ UNCHANGED <<provider, input, activities, origin, calls, successCalls, rejected>>

\* One turn of the row loop up to the await: an ignored record is skipped, for
\* any other record getSecurity is called.
TWNextRecord ==
    /\ provider = "truewealth"
    /\ pc = "RowProcessing"
    /\ idx <= Len(records)
    /\ IF TWIsIgnoredRecord(records[idx])
       THEN Skip /\ UNCHANGED calls
       ELSE /\ calls' = Append(calls, [row |-> idx, sec |-> Pending])
            /\ pc' = "AwaitSecurity"
            /\ UNCHANGED <<idx, activities, origin>>
    /\ UNCHANGED <<provider, input, records, successCalls, errorCalls, errorArg, rejected>>

\* TWOutcome with a catch that logs the error and lets the loop go on.
TWOutcomeSwallowed(sec) ==
    IF sec.status = "error" \/ sec.status = "notfound" THEN "skip" ELSE "push"

\* What the loop does with the answer of getSecurity: the catch returns
\* errorCallback(err), "no match" goes on to the next record, a security is
\* turned into an activity.
TWOutcome(sec) ==
    IF sec.status = "error" THEN "abort"
    ELSE IF sec.status = "notfound" THEN "skip"
    ELSE "push"

\* getSecurity comes back with sec and the turn of the loop is finished.
TWResume(sec) ==
    /\ provider = "truewealth"
    /\ pc = "AwaitSecurity"
    /\ calls' = [calls EXCEPT ![Len(calls)].sec = sec]
    /\ IF TWOutcome(sec) = "abort"
       THEN /\ pc' = "Aborted"
            /\ errorCalls' = errorCalls + 1
            /\ errorArg' = [kind |-> "resolver", row |-> idx]
            /\ UNCHANGED <<idx, activities, origin>>
       ELSE /\ IF TWOutcome(sec) = "skip"
               THEN Skip
               ELSE Push(<<TWActivity(records[idx], sec)>>)
            /\ UNCHANGED <<errorCalls, errorArg>>
    /\ UNCHANGED <<provider, input, records, successCalls, rejected>>

\* The loop is over: successCallback(result).  A successCallback that throws
\* rejects the promise of the async callback, which nothing handles.
TWFinish ==
    /\ provider = "truewealth"
    /\ pc = "RowProcessing"
    /\ idx > Len(records)
    /\ successCalls' = successCalls + 1
    /\ \E throws \in BOOLEAN :
          /\ rejected' = throws
          /\ pc' = IF throws THEN "CallbackFailed" ELSE "Completed"
    /\ UNCHANGED <<provider, input, records, idx, activities, origin, calls,
                   errorCalls, errorArg>>

BPParse ==
    /\ provider = "bitpanda"
    /\ pc = "Start"
    /\ ParsedOrFailed([i \in DOMAIN input.rows |-> BPCast(input.rows[i])])
    /\ UNCHANGED <<provider, input, activities, origin, calls, successCalls, rejected>>

\* One turn of the row loop up to the await, or to its end for a record that
\* needs no lookup.
BPNextRecord ==
    /\ provider = "bitpanda"
    /\ pc = "RowProcessing"
    /\ idx <= Len(records)
    /\ LET record == records[idx]
           type   == BPType(record)
       IN  IF BPIsIgnoredRecord(record) \/ type = Undefined
           THEN Skip /\ UNCHANGED calls
           ELSE IF BPAssetClass(record) = sMetal
           THEN /\ calls' = Append(calls, [row |-> idx, sec |-> Pending])
                /\ pc' = "AwaitSecurity"
                /\ UNCHANGED <<idx, activities, origin>>
           ELSE /\ Push(BPActivities(record, type, BPPlainSymbol(record)))
                /\ UNCHANGED calls
    /\ UNCHANGED <<provider, input, records, successCalls, errorCalls, errorArg, rejected>>

\* The metal lookup comes back with sec (found, not found or an error, which
\* the inner catch absorbs) and the turn of the loop is finished.
BPResume(sec) ==
    /\ provider = "bitpanda"
    /\ pc = "AwaitSecurity"
    /\ calls' = [calls EXCEPT ![Len(calls)].sec = sec]
    /\ LET record == records[idx]
       IN  Push(BPActivities(record, BPType(record), BPMetalSymbol(record, sec)))
    /\ UNCHANGED <<provider, input, records, successCalls, errorCalls,
                   errorArg, rejected>>

\* The loop is over: successCallback(result), inside the try.  A successCallback
\* that throws is caught, and the catch calls errorCallback(error).
BPFinish ==
    /\ provider = "bitpanda"
    /\ pc = "RowProcessing"
    /\ idx > Len(records)
    /\ successCalls' = successCalls + 1
    /\ \E throws \in BOOLEAN :
          IF throws
          THEN /\ pc' = "CallbackFailed"
               /\ errorCalls' = errorCalls + 1
               /\ errorArg' = [kind |-> "callback", row |-> 0]
          ELSE /\ pc' = "Completed"
               /\ UNCHANGED <<errorCalls, errorArg>>
    /\ UNCHANGED <<provider, input, records, idx, activities, origin, calls, rejected>>

Next ==
    \/ TWParse
    \/ TWNextRecord
    \/ \E sec \in Responses : TWResume(sec)
    \/ TWFinish
    \/ BPParse
    \/ BPNextRecord
    \/ \E sec \in Responses : BPResume(sec)
    \/ BPFinish

Spec == Init /\ [][Next]_vars

-----------------------------------------------------------------------------
(* Vocabulary of the properties *)

\* The loop is done with record i.
Processed(i) == i \in DOMAIN records /\ i < idx

\* The positions in the envelope of the activities record i pushed.
ActivitiesOf(i) == {k \in DOMAIN activities : origin[k] = i}

\* The getSecurity calls made for record i.
CallsFor(i) == {j \in DOMAIN calls : calls[j].row = i}

ParseFailure == input.err \/ Len(input.rows) = 0

ResolverRaised == \E j \in DOMAIN calls : calls[j].sec.status = "error"

Terminal == pc \in {"ParseFailed", "Aborted", "Completed", "CallbackFailed"}

\* Row i of the file matches its provider's ignore rule.
IgnoreRuleMatches(i) ==
    IF provider = "truewealth"
    THEN IndexOf(ToLowerCase(input.rows[i].type), sFx) > -1
    ELSE records[i].assetClass = sEmpty \/ ToLowerCase(records[i].assetClass) = sFiat

\* Row i of the file matches none of its provider's classification rules.
NoRuleMatches(i) ==
    IF provider = "truewealth"
    THEN \A w \in {sBuy, sSell, sDividend, sFx} :
            IndexOf(ToLowerCase(input.rows[i].type), w) = -1
    ELSE LET tt == ToLowerCase(records[i].transactionType)
         IN  tt \notin {sReward, sBuy, sSell} /\ ~StartsWith(tt, sTransfer)

IsRewardRow(i) == ToLowerCase(records[i].transactionType) = sReward

IsMetalRow(i) == ToLowerCase(records[i].assetClass) = sMetal

-----------------------------------------------------------------------------
(* Properties *)

\* C1: every activity in the envelope has a kind of the closed set {buy, sell,
\* dividend, interest, fx}, and a row that is not ignored and matches no
\* classification rule of its provider contributes no activity, for both
\* providers.
C1_ClosedKindsAndDroppedRows ==
    /\ \A k \in DOMAIN activities : activities[k].type \in OrderTypes
    /\ \A i \in DOMAIN records :
          (NoRuleMatches(i) /\ ~IgnoreRuleMatches(i)) => ActivitiesOf(i) = {}

\* C2: a row that matches its provider's ignore rule (TrueWealth: the raw type
\* contains "fx" in any case, whatever else it contains; Bitpanda: assetClass
\* empty or "fiat" in any case) contributes no activity and causes no call of
\* the security service.
C2_IgnoredRowsAreSilent ==
    \A i \in DOMAIN records :
        IgnoreRuleMatches(i) => (ActivitiesOf(i) = {} /\ CallsFor(i) = {})

\* C3: TrueWealth: once the security service has raised an error for record k,
\* the run is Aborted: errorCallback was called once, with that error,
\* successCallback was not called and never will be (nothing can happen any
\* more), no record from k on has pushed an activity, the loop stays at k and
\* that call is the last call.
C3_ResolverErrorAborts ==
    provider = "truewealth" =>
        \A j \in DOMAIN calls :
            calls[j].sec.status = "error" =>
                /\ pc = "Aborted"
                /\ errorCalls = 1
                /\ errorArg = [kind |-> "resolver", row |-> calls[j].row]
                /\ successCalls = 0
                /\ j = Len(calls)
                /\ idx = calls[j].row
                /\ \A k \in DOMAIN activities : origin[k] < calls[j].row
                /\ ~ENABLED Next

\* C3, its case: the error is raised for the second of three records, after
\* the first one has pushed an activity.
C3_Witness ==
    /\ provider = "truewealth"
    /\ pc = "Aborted"
    /\ Len(records) = 3
    /\ idx = 2
    /\ Len(activities) = 1
    /\ calls[Len(calls)].sec.status = "error"

\* C4: the activities are in the order of the rows that produced them, and the
\* two activities of a Bitpanda reward row are adjacent, the interest entry
\* immediately before the buy entry, whatever the other rows are and whatever
\* the security service answers.
C4_RowOrder ==
    /\ Len(origin) = Len(activities)
    /\ \A a, b \in DOMAIN origin : a < b => origin[a] <= origin[b]
    /\ \A k \in DOMAIN activities :
          activities[k].type = sInterest =>
              /\ k + 1 \in DOMAIN activities
              /\ origin[k + 1] = origin[k]
              /\ activities[k + 1].type = sBuy
              /\ ActivitiesOf(origin[k]) = {k, k + 1}

\* C4, its case: a completed Bitpanda run whose second row is a reward row
\* between two rows that each pushed an activity.
C4_Witness ==
    /\ provider = "bitpanda"
    /\ pc = "Completed"
    /\ origin = <<1, 2, 2, 3>>
    /\ activities[2].type = sInterest
    /\ activities[3].type = sBuy

\* C5: a Bitpanda row that is not ignored and whose transactionType is "reward"
\* in any case yields exactly two activities of one date: first the interest
\* activity (quantity 1, unitPrice amountFiat, currency fiat, dataSource
\* MANUAL, symbol the configured staking-reward asset id), then a buy activity
\* (fee 0, quantity and unitPrice from amountAsset and assetMarketPrice,
\* currency assetMarketPriceCurrency or else fiat, the derived symbol); any
\* other row yields at most one activity.
C5_RewardExpansion ==
    provider = "bitpanda" =>
        \A i \in DOMAIN records :
            Processed(i) =>
                IF IsRewardRow(i) /\ ~IgnoreRuleMatches(i)
                THEN \E k \in DOMAIN activities :
                        LET cash == activities[k]
                            buy  == activities[k + 1]
                            r    == records[i]
                            oz   == IF IsMetalRow(i) THEN 1 ELSE 0
                        IN  /\ ActivitiesOf(i) = {k, k + 1}
                            /\ cash.date = buy.date
                            /\ cash.type = sInterest
                            /\ cash.quantity = One
                            /\ cash.unitPrice = r.amountFiat
                            /\ cash.currency = r.fiat
                            /\ cash.dataSource = "MANUAL"
                            /\ cash.symbol = StakingRewardAssetId
                            /\ buy.type = sBuy
                            /\ buy.fee = Zero
                            /\ buy.quantity.k = r.amountAsset.k
                            /\ buy.quantity.m = r.amountAsset.m
                            /\ buy.quantity.e = IF r.amountAsset.k = "num" THEN -oz ELSE 0
                            /\ buy.unitPrice.k = r.assetMarketPrice.k
                            /\ buy.unitPrice.m = r.assetMarketPrice.m
                            /\ buy.unitPrice.e = IF r.assetMarketPrice.k = "num" THEN oz ELSE 0
                            /\ buy.currency = IF r.assetMarketPriceCurrency # sEmpty
                                              THEN r.assetMarketPriceCurrency
                                              ELSE r.fiat
                            /\ buy.symbol =
                                  IF IsMetalRow(i)
                                  THEN IF \E j \in CallsFor(i) : calls[j].sec = FoundFull
                                       THEN FoundFull.symbol
                                       ELSE r.asset
                                  ELSE IF ToLowerCase(r.assetClass) = sCryptocurrency
                                  THEN mapBitpandaSymbolToYahoo(r.asset) \o <<"U","S","D">>
                                  ELSE r.asset
                ELSE Cardinality(ActivitiesOf(i)) <= 1

\* C5, its case: a reward row of a metal whose lookup raised an error has
\* pushed its two activities, and a row of another kind has pushed one.
C5_Witness ==
    /\ provider = "bitpanda"
    /\ pc = "Completed"
    /\ \E i \in DOMAIN records :
          /\ IsRewardRow(i)
          /\ IsMetalRow(i)
          /\ Cardinality(ActivitiesOf(i)) = 2
          /\ \E j \in CallsFor(i) : calls[j].sec.status = "error"
    /\ \E i \in DOMAIN records :
          ~IsRewardRow(i) /\ Cardinality(ActivitiesOf(i)) = 1

\* C6: every activity has quantity >= 0, unitPrice >= 0 and fee >= 0, each of
\* them a real number, whatever the numeric cells of the file hold.
C6_NonNegativeNumbers ==
    \A k \in DOMAIN activities :
        /\ IsNonNegative(activities[k].quantity)
        /\ IsNonNegative(activities[k].unitPrice)
        /\ IsNonNegative(activities[k].fee)

\* C7: errorCallback is called only after a parse failure or an error raised
\* by the security service; a run is aborted by nothing else; a TrueWealth row
\* whose security is not found pushes nothing and the loop goes on; and a run
\* with neither a parse failure nor a resolver error ends with successCallback.
C7_OnlyParseAndResolverErrorsAbort ==
    /\ errorCalls > 0 => (ParseFailure \/ ResolverRaised)
    /\ pc = "Aborted" => ResolverRaised
    /\ \A j \in DOMAIN calls :
          (provider = "truewealth" /\ calls[j].sec.status = "notfound") =>
              (Processed(calls[j].row) /\ ActivitiesOf(calls[j].row) = {})
    /\ (Terminal /\ ~ParseFailure /\ ~(provider = "truewealth" /\ ResolverRaised)) =>
          successCalls = 1

\* C8: Bitpanda: the security service is called only for rows that are not
\* ignored, have a type and are of asset class "metal", once per such row; its
\* answer never aborts the run and never drops the row: the row's trade
\* activity carries the security's symbol when one came back and the raw asset
\* identifier when nothing was found or an error was raised, the row pushes one
\* activity (two for a reward), and the loop goes on.
C8_MetalLookupNeverAborts ==
    provider = "bitpanda" =>
        /\ pc # "Aborted"
        /\ errorArg.kind # "resolver"
        /\ \A j \in DOMAIN calls :
              LET i == calls[j].row
              IN  /\ ~IgnoreRuleMatches(i)
                  /\ ~NoRuleMatches(i)
                  /\ IsMetalRow(i)
                  /\ CallsFor(i) = {j}
                  /\ calls[j].sec = Pending =>
                        (j = Len(calls) /\ idx = i /\ pc = "AwaitSecurity")
                  /\ calls[j].sec # Pending =>
                        /\ Processed(i)
                        /\ Cardinality(ActivitiesOf(i)) = IF IsRewardRow(i) THEN 2 ELSE 1
                        /\ \E k \in ActivitiesOf(i) :
                              /\ activities[k].dataSource = "YAHOO"
                              /\ activities[k].symbol =
                                    IF calls[j].sec = FoundFull
                                    THEN FoundFull.symbol
                                    ELSE records[i].asset
        /\ \A i \in DOMAIN records :
              (Processed(i) /\ IsMetalRow(i) /\ ~NoRuleMatches(i)) => CallsFor(i) # {}

\* C8, its case: a completed run in which the lookup for a metal row raised an
\* error, the row pushed its activity under the asset name, and the next row
\* pushed an activity too.
C8_Witness ==
    /\ provider = "bitpanda"
    /\ pc = "Completed"
    /\ \E j \in DOMAIN calls :
          /\ calls[j].sec.status = "error"
          /\ \E k \in ActivitiesOf(calls[j].row) :
                activities[k].symbol = records[calls[j].row].asset
          /\ ActivitiesOf(calls[j].row + 1) # {}

\* C9: the fee of a TrueWealth activity is the row's parsed fees value when
\* that value is a number, and 0 when it is undefined or not a number.
C9_FeeIsParsedFees ==
    provider = "truewealth" =>
        \A k \in DOMAIN activities :
            LET fees == records[origin[k]].fees
            IN  activities[k].fee = IF fees.k = "num" THEN fees ELSE Zero

\* C10: a run delivers exactly one outcome: never more than one callback
\* invocation in all, and exactly one once the run has ended.
C10_ExactlyOneOutcome ==
    /\ successCalls + errorCalls <= 1
    /\ Terminal => successCalls + errorCalls = 1

====
